---- MODULE Spec2Model ----
(***************************************************************************)
(* Monte Carlo option pricing: the statistics accumulators                 *)
(* (monte_carlo/statistics.py), the payoffs, the simulation loop and the   *)
(* pricing facade (monte_carlo/options.py) and the constant parameters     *)
(* (monte_carlo/parameters.py).                                            *)
(*                                                                         *)
(* Numbers.  Python floats are modelled by exact numbers on a grid:        *)
(*   - a result fed to an accumulator is an integer;                       *)
(*   - a quotient a / b is the reduced fraction <<n, d>>, and a / 0 raises *)
(*     ZeroDivisionError as Python's true division does;                   *)
(*   - prices are fixed-point integers in eighths, log-domain quantities   *)
(*     (integrals, variance, exponents) are integers in halves.            *)
(* An outcome of a call is [raised |-> "" or the exception, value |-> v].  *)
(***************************************************************************)
EXTENDS Integers, Sequences, FiniteSets, TLC

VARIABLES
    gatherer,   \* the ConvergenceTable under test (with its inner StatisticsMean)
    fed,        \* history: the results dumped into gatherer so far, in order
    op,         \* the last operation called on gatherer
    ret,        \* the outcome of that operation
    dd,         \* a PayOffDoubleDigital object
    dd_spot,    \* the spot last passed to dd.calc, <<>> before any call
    dd_ret,     \* what dd.calc returned
    rnd,        \* the process-wide random source of module random
    first,      \* a remembered earlier seeded pricing call
    last        \* the latest pricing call

vars == <<gatherer, fed, op, ret, dd, dd_spot, dd_ret, rnd, first, last>>
tableVars == <<gatherer, fed, op, ret>>
payOffVars == <<dd, dd_spot, dd_ret>>
pricingVars == <<rnd, first, last>>

\* ------------------------------------------------------------------ bounds
MaxPaths == 8        \* dumps into the table under test
MaxLevel == 2        \* double-digital levels are the even ticks in -2*MaxLevel..2*MaxLevel
MaxSimPaths == 3     \* largest number_of_paths of a pricing call

Results == {0, 1, 3}

\* --------------------------------------------------------------- outcomes
Returned(v) == [raised |-> "", value |-> v]
Raised(e) == [raised |-> e, value |-> <<>>]

\* ------------------------------------------------------------- arithmetic
RECURSIVE Gcd(_, _)
Gcd(a, b) == IF b = 0 THEN a ELSE Gcd(b, a % b)

\* a / b for b # 0, as an exact reduced fraction
Frac(a, b) ==
    LET g == Gcd(IF a < 0 THEN -a ELSE a, b) IN <<a \div g, b \div g>>

RECURSIVE Sum(_)
Sum(s) == IF s = <<>> THEN 0 ELSE Sum(SubSeq(s, 1, Len(s) - 1)) + s[Len(s)]

Mean(s) == Frac(Sum(s), Len(s))

\* ---------------------------------------------------------- StatisticsMean
StatisticsMean_init == [running_sum |-> 0, paths_done |-> 0]

StatisticsMean_dump_overwrite(self, result) ==
    [running_sum |-> result, paths_done |-> self.paths_done + 1]

StatisticsMean_dump_one_result(self, result) ==
    [running_sum |-> self.running_sum + result,
     paths_done |-> self.paths_done + 1]

StatisticsMean_get_nan(self) ==
    IF self.paths_done = 0
    THEN Returned(<< << <<0, 0>> >> >>)
    ELSE Returned(<< << Frac(self.running_sum, self.paths_done) >> >>)

\* [[self.running_sum / self.paths_done]]; float / int 0 raises
StatisticsMean_get_results_so_far(self) ==
    IF self.paths_done = 0
    THEN Raised("ZeroDivisionError")
    ELSE Returned(<< << Frac(self.running_sum, self.paths_done) >> >>)

\* -------------------------------------------------------- ConvergenceTable
ConvergenceTable_init(stats) ==
    [stats |-> stats, results_so_far |-> <<>>, stopping_point |-> 2,
     paths_done |-> 0]

\* for i in range(len(this_result)): this_result[i].append(n); into.append(this_result[i])
RECURSIVE AppendRows(_, _, _)
AppendRows(into, this_result, n) ==
    IF this_result = <<>> THEN into
    ELSE AppendRows(Append(into, Append(Head(this_result), n)),
                    Tail(this_result), n)

ConvergenceTable_dump_no_doubling(self, result) ==
    LET stats1 == StatisticsMean_dump_one_result(self.stats, result)
        done1 == self.paths_done + 1
        this == StatisticsMean_get_results_so_far(stats1)
    IN  IF done1 # self.stopping_point
        THEN [self |-> [self EXCEPT !.stats = stats1, !.paths_done = done1],
              raised |-> "", value |-> <<>>]
        ELSE [self |-> [self EXCEPT !.stats = stats1, !.paths_done = done1,
                            !.results_so_far =
                                AppendRows(self.results_so_far, this.value, done1)],
              raised |-> this.raised, value |-> <<>>]

ConvergenceTable_dump_linear(self, result) ==
    LET stats1 == StatisticsMean_dump_one_result(self.stats, result)
        done1 == self.paths_done + 1
        this == StatisticsMean_get_results_so_far(stats1)
    IN  IF done1 # self.stopping_point
        THEN [self |-> [self EXCEPT !.stats = stats1, !.paths_done = done1],
              raised |-> "", value |-> <<>>]
        ELSE [self |-> [self EXCEPT !.stats = stats1, !.paths_done = done1,
                            !.stopping_point = self.stopping_point + 2,
                            !.results_so_far =
                                AppendRows(self.results_so_far, this.value, done1)],
              raised |-> this.raised, value |-> <<>>]

\* The object after the call and the call's outcome.  math.ceil of an int
\* product is that product.  An exception of the inner get_results_so_far
\* leaves the statements before it done.
ConvergenceTable_dump_one_result(self, result) ==
    LET stats1 == StatisticsMean_dump_one_result(self.stats, result)
        done1 == self.paths_done + 1
        this == StatisticsMean_get_results_so_far(stats1)
    IN  IF done1 # self.stopping_point
        THEN [self |-> [self EXCEPT !.stats = stats1, !.paths_done = done1],
              raised |-> "", value |-> <<>>]
        ELSE IF this.raised # ""
        THEN [self |-> [self EXCEPT !.stats = stats1, !.paths_done = done1,
                            !.stopping_point = self.stopping_point * 2],
              raised |-> this.raised, value |-> <<>>]
        ELSE [self |-> [self EXCEPT !.stats = stats1, !.paths_done = done1,
                            !.stopping_point = self.stopping_point * 2,
                            !.results_so_far =
                                AppendRows(self.results_so_far, this.value, done1)],
              raised |-> "", value |-> <<>>]

ConvergenceTable_get_no_copy(self) ==
    LET this == StatisticsMean_get_results_so_far(self.stats)
        tmp == AppendRows(self.results_so_far, this.value, self.paths_done)
    IN  IF self.paths_done # self.stopping_point /\ this.raised = ""
        THEN [self |-> [self EXCEPT !.results_so_far = tmp],
              raised |-> "", value |-> tmp]
        ELSE [self |-> self, raised |-> this.raised, value |-> <<>>]

\* tmp is a copy of the recorded rows: appending to it leaves self alone.
ConvergenceTable_get_results_so_far(self) ==
    LET tmp == self.results_so_far
        this == StatisticsMean_get_results_so_far(self.stats)
    IN  IF self.paths_done # self.stopping_point
        THEN IF this.raised # ""
             THEN [self |-> self, raised |-> this.raised, value |-> <<>>]
             ELSE [self |-> self, raised |-> "",
                   value |-> AppendRows(tmp, this.value, self.paths_done)]
        ELSE [self |-> self, raised |-> "", value |-> tmp]


\* ----------------------------------------------------------------- PayOff
PayOffCall_init(strike) == [type |-> "call", strike |-> strike]
PayOffPut_init(strike) == [type |-> "put", strike |-> strike]
PayOffDoubleDigital_init(lower_level, upper_level) ==
    [type |-> "double_digital", lower_level |-> lower_level,
     upper_level |-> upper_level]

Max(a, b) == IF a >= b THEN a ELSE b

PayOffCall_calc(self, spot) == Max(spot - self.strike, 0)

PayOffPut_calc(self, spot) == Max(self.strike - spot, 0)

PayOffDoubleDigital_calc_inclusive(self, spot) ==
    IF spot < self.lower_level THEN 0
    ELSE IF spot > self.upper_level THEN 0
    ELSE 1

PayOffDoubleDigital_calc(self, spot) ==
    IF spot <= self.lower_level THEN 0
    ELSE IF spot >= self.upper_level THEN 0
    ELSE 1

\* ---------------------------------------------------------- VanillaOption
VanillaOption_init(expiry, pay_off) == [expiry |-> expiry, pay_off |-> pay_off]

VanillaOption_get_expiry(self) == self.expiry

\* self.pay_off.calc(spot), dispatched on the payoff's class
VanillaOption_calc_pay_off(self, spot) ==
    CASE self.pay_off.type = "call" -> PayOffCall_calc(self.pay_off, spot)
      [] self.pay_off.type = "put" -> PayOffPut_calc(self.pay_off, spot)
      [] OTHER -> PayOffDoubleDigital_calc(self.pay_off, spot)

\* ----------------------------------------------------- ParametersConstant
\* constant is in halves, so its square in halves is constant * constant / 2
ParametersConstant_init(constant) ==
    [constant |-> constant, constant_square |-> (constant * constant) \div 2]

ParametersConstant_integral(self, time1, time2) == (time2 - time1) * self.constant

ParametersConstant_integral_square(self, time1, time2) ==
    (time2 - time1) * self.constant_square

\* ------------------------------------------------------- module random
\* The hidden generator of module random: a state stepped by each uniform
\* draw, and the second variate of the last pair gauss() computed.
Random_step(state) == (5 * state + 3) % 4

\* random.seed(a): the state is a function of a, the cached variate is dropped
Random_seed(self, a) == [state |-> (3 * a + 1) % 4, gauss_next |-> <<>>]

\* random.gauss(0, 1): the cached variate when there is one, otherwise two
\* uniform draws make a pair, one returned and one cached
Random_gauss(self) ==
    IF self.gauss_next # <<>>
    THEN [rnd |-> [self EXCEPT !.gauss_next = <<>>], value |-> self.gauss_next[1]]
    ELSE LET u1 == Random_step(self.state)
             u2 == Random_step(u1)
         IN  [rnd |-> [state |-> u2, gauss_next |-> <<(u2 % 3) - 1>>],
              value |-> (u1 % 3) - 1]

\* ------------------------------------------------------------- Simulation
\* math.exp of h halves, in eighths (8 * e^(h/2), rounded)
Exp(h) == <<1, 2, 3, 5, 8, 13, 22, 36, 59>>[h + 5]

\* math.sqrt of v halves, in halves
Sqrt(v) == CHOOSE s \in 0..(2 * v) : s * s <= 2 * v /\ (s + 1) * (s + 1) > 2 * v

\* the product of two numbers in eighths, in eighths
Times(a, b) == (a * b) \div 8

\* for _ in range(n): one gaussian, one payoff, one dump
RECURSIVE Simulation_paths(_, _, _, _, _, _, _)
Simulation_paths(n, option, moved_spot, root_variance, discounting, g, random) ==
    IF n <= 0
    THEN [rnd |-> random, gatherer |-> g, raised |-> ""]
    ELSE LET draw == Random_gauss(random)
             this_gaussian == draw.value
             this_spot == Times(moved_spot, Exp(root_variance * this_gaussian))
             this_payoff == VanillaOption_calc_pay_off(option, this_spot)
             dumped == ConvergenceTable_dump_one_result(
                           g, Times(discounting, this_payoff))
         IN  IF dumped.raised # ""
             THEN [rnd |-> draw.rnd, gatherer |-> dumped.self,
                   raised |-> dumped.raised]
             ELSE Simulation_paths(n - 1, option, moved_spot, root_variance,
                                   discounting, dumped.self, draw.rnd)

Simulation_option_price_unseeded(option, spot, vol, r, number_of_paths, g, seed, random) ==
    LET expiry == VanillaOption_get_expiry(option)
        variance == ParametersConstant_integral_square(vol, 0, expiry)
        moved_spot ==
            Times(spot, Exp(ParametersConstant_integral(r, 0, expiry)
                            - (variance \div 2)))
    IN  Simulation_paths(number_of_paths, option, moved_spot, Sqrt(variance),
                         Exp(-ParametersConstant_integral(r, 0, expiry)), g, random)

\* seed is <<>> for None and <<a>> for the integer a; the random source after
\* the call, the gatherer after the call and the exception raised, if any
Simulation_option_price(option, spot, vol, r, number_of_paths, g, seed, random) ==
    LET random1 == IF seed # <<>> THEN Random_seed(random, seed[1]) ELSE random
        expiry == VanillaOption_get_expiry(option)
        variance == ParametersConstant_integral_square(vol, 0, expiry)
        root_variance == Sqrt(variance)
        ito_correction == -(variance \div 2)
        moved_spot ==
            Times(spot, Exp(ParametersConstant_integral(r, 0, expiry)
                            + ito_correction))
        discounting == Exp(-ParametersConstant_integral(r, 0, expiry))
    IN  Simulation_paths(number_of_paths, option, moved_spot, root_variance,
                         discounting, g, random1)

\* ----------------------------------------------------- CalcEuropeanOption
CalcEuropeanOption_call_price_stats(strike, expiry, spot, vol, r, number_of_paths, seed, random) ==
    Simulation_option_price(
        VanillaOption_init(expiry, PayOffCall_init(strike)), spot,
        ParametersConstant_init(vol), ParametersConstant_init(r),
        number_of_paths, ConvergenceTable_init(StatisticsMean_init), seed, random)

CalcEuropeanOption_put_price_stats(strike, expiry, spot, vol, r, number_of_paths, seed, random) ==
    Simulation_option_price(
        VanillaOption_init(expiry, PayOffPut_init(strike)), spot,
        ParametersConstant_init(vol), ParametersConstant_init(r),
        number_of_paths, ConvergenceTable_init(StatisticsMean_init), seed, random)

\* ------------------------------------------------- the table under test
InitTable ==
    /\ gatherer = ConvergenceTable_init(StatisticsMean_init)
    /\ fed = <<>>
    /\ op = "init"
    /\ ret = Returned(<<>>)

DumpOneResult ==
    \E result \in Results :
        /\ Len(fed) < MaxPaths
        /\ LET out == ConvergenceTable_dump_one_result(gatherer, result) IN
            /\ gatherer' = out.self
            /\ ret' = [raised |-> out.raised, value |-> out.value]
        /\ fed' = Append(fed, result)
        /\ op' = "dump_one_result"
        /\ UNCHANGED <<payOffVars, pricingVars>>

GetResultsSoFar ==
    /\ LET out == ConvergenceTable_get_results_so_far(gatherer) IN
        /\ gatherer' = out.self
        /\ ret' = [raised |-> out.raised, value |-> out.value]
    /\ op' = "get_results_so_far"
    /\ UNCHANGED <<fed, payOffVars, pricingVars>>

\* gatherer.stats.get_results_so_far(): the inner accumulator queried directly
MeanGetResultsSoFar ==
    /\ ret' = StatisticsMean_get_results_so_far(gatherer.stats)
    /\ op' = "stats.get_results_so_far"
    /\ UNCHANGED <<gatherer, fed, payOffVars, pricingVars>>

IdleTable == InitTable
IdlePayOff ==
    /\ dd = PayOffDoubleDigital_init(0, 0)
    /\ dd_spot = <<>>
    /\ dd_ret = 0

\* no pricing call yet
NoCall ==
    [fn |-> "none", strike |-> 0, expiry |-> 0, spot |-> 0, vol |-> 0, r |-> 0,
     number_of_paths |-> 0, seed |-> <<>>,
     later |-> FALSE, pending |-> FALSE,
     raised |-> "", gatherer |-> ConvergenceTable_init(StatisticsMean_init)]

IdlePricing ==
    /\ rnd = [state |-> 0, gauss_next |-> <<>>]
    /\ first = NoCall
    /\ last = NoCall

Init == InitTable /\ IdlePayOff /\ IdlePricing

Next == DumpOneResult \/ GetResultsSoFar \/ MeanGetResultsSoFar

Spec == Init /\ [][Next]_vars

\* ------------------------------------------------ claims about the table
\* column 2 of each row of a ConvergenceTable result: pathsUsed
PathsUsed(rows) == [i \in 1..Len(rows) |-> rows[i][2]]

StrictlyIncreasing(s) == \A i \in 1..(Len(s) - 1) : s[i] < s[i + 1]

RECURSIVE Pow2(_)
Pow2(i) == IF i = 0 THEN 1 ELSE 2 * Pow2(i - 1)

\* how many of 2, 4, 8, ... do not exceed n
RECURSIVE Doublings(_)
Doublings(n) == IF n < 2 THEN 0 ELSE 1 + Doublings(n \div 2)

IsDoubling(n) == n >= 2 /\ Pow2(Doublings(n)) = n

\* the snapshot schedule of the specification for n paths
Schedule(n) ==
    [i \in 1..Doublings(n) |-> Pow2(i)] \o (IF IsDoubling(n) THEN <<>> ELSE <<n>>)

GotRows == op = "get_results_so_far" /\ Len(fed) >= 1 /\ ret.raised = ""

\* C1: after N >= 1 dumps the rows get_results_so_far() returns have strictly
\* increasing pathsUsed and the last row's pathsUsed is N.
C1_StrictlyIncreasingRows ==
    GotRows =>
        /\ ret.value # <<>>
        /\ StrictlyIncreasing(PathsUsed(ret.value))
        /\ ret.value[Len(ret.value)][2] = Len(fed)

\* C2: after N >= 1 dumps the path counts of the returned rows are 2, 4, 8, ...
\* up to N, followed by a live row at N only when N is not a doubling value.
C2_SnapshotSchedule ==
    GotRows => PathsUsed(ret.value) = Schedule(Len(fed))

\* C3: with at least one result dumped, get_results_so_far() leaves the table
\* (recorded rows, paths_done, stopping_point, inner accumulator) unchanged,
\* returns rows without raising, and a call right after another returns the
\* same rows.
C3_GetStep ==
    (op' = "get_results_so_far" /\ gatherer.paths_done >= 1) =>
        /\ gatherer' = gatherer
        /\ fed' = fed
        /\ ret'.raised = ""
        /\ (op = "get_results_so_far" => ret' = ret)

\* C3: every step satisfies C3_GetStep: get_results_so_far() is idempotent and
\* mutates nothing.
C3_GetIdempotent == [][C3_GetStep]_vars

\* a live row was returned on top of recorded rows, and was not persisted
C3_Witness ==
    /\ op = "get_results_so_far"
    /\ Len(gatherer.results_so_far) >= 2
    /\ Len(ret.value) = Len(gatherer.results_so_far) + 1
    /\ ret.value[Len(ret.value)][2] = gatherer.paths_done

\* C4: after results r1..rn the StatisticsMean holds running_sum = r1+...+rn
\* and paths_done = n (also after any get_results_so_far), and for n >= 1
\* get_results_so_far() returns [[running_sum / paths_done]] = [[mean(r1..rn)]].
C4_MeanCorrect ==
    /\ gatherer.stats.running_sum = Sum(fed)
    /\ gatherer.stats.paths_done = Len(fed)
    /\ (op = "stats.get_results_so_far" /\ Len(fed) >= 1) =>
           ret = Returned(<< << Mean(fed) >> >>)

C4_Witness ==
    /\ op = "stats.get_results_so_far"
    /\ Len(fed) = 3
    /\ ret.raised = ""
    /\ ret.value = << << <<4, 3>> >> >>

\* C5: get_results_so_far() on a StatisticsMean or a ConvergenceTable with
\* paths_done = 0 raises, returns no value, and leaves the accumulator as
\* constructed.
C5_EmptyQueryRaises ==
    (op \in {"get_results_so_far", "stats.get_results_so_far"} /\ Len(fed) = 0) =>
        /\ ret.raised = "ZeroDivisionError"
        /\ ret.value = <<>>
        /\ gatherer = ConvergenceTable_init(StatisticsMean_init)

C5_Witness ==
    /\ op = "get_results_so_far"
    /\ gatherer.paths_done = 0
    /\ gatherer.stats.paths_done = 0
    /\ ret.raised = "ZeroDivisionError"

\* C9: a dump appends a snapshot exactly when the incremented paths_done
\* equals the threshold, and the threshold doubles in that step; the recorded
\* rows are only ever appended to; after k dumps they are, in order, the rows
\* [mean of the first j results, j] for j = 2, 4, 8, ... <= k.
C9_Recorded ==
    gatherer.results_so_far =
        [i \in 1..Doublings(Len(fed)) |->
            <<Mean(SubSeq(fed, 1, Pow2(i))), Pow2(i)>>]

C9_DumpStep ==
    /\ Len(gatherer.results_so_far) <= Len(gatherer'.results_so_far)
    /\ SubSeq(gatherer'.results_so_far, 1, Len(gatherer.results_so_far))
           = gatherer.results_so_far
    /\ op' = "dump_one_result" =>
          IF gatherer.paths_done + 1 = gatherer.stopping_point
          THEN /\ gatherer'.results_so_far =
                      Append(gatherer.results_so_far,
                             <<Mean(fed'), gatherer.paths_done + 1>>)
               /\ gatherer'.stopping_point = 2 * gatherer.stopping_point
          ELSE /\ gatherer'.results_so_far = gatherer.results_so_far
               /\ gatherer'.stopping_point = gatherer.stopping_point

\* C9: the recorded rows are always the snapshots at 2, 4, 8, ... of the means
\* so far, and every step satisfies C9_DumpStep.
C9_SnapshotsAtThresholds == [](C9_Recorded) /\ [][C9_DumpStep]_vars

C9_Witness ==
    /\ op = "dump_one_result"
    /\ Len(fed) = 8
    /\ PathsUsed(gatherer.results_so_far) = <<2, 4, 8>>
    /\ gatherer.results_so_far[1][1] # gatherer.results_so_far[3][1]

\* C10: in every reachable state stopping_point is a power of two >= 2,
\* paths_done < stopping_point (so the guard paths_done != stopping_point of
\* get_results_so_far always holds), and the table's paths_done is the inner
\* accumulator's.
C10_ThresholdAhead ==
    /\ IsDoubling(gatherer.stopping_point)
    /\ gatherer.paths_done < gatherer.stopping_point
    /\ gatherer.paths_done # gatherer.stopping_point
    /\ gatherer.paths_done = gatherer.stats.paths_done

C10_Witness ==
    /\ op = "get_results_so_far"
    /\ gatherer.paths_done = 4
    /\ gatherer.stopping_point = 8

\* ------------------------------------------------ the double-digital payoff
\* levels and spots are ticks; the levels are even ticks, so that the
\* midpoint of two levels is a tick
Levels == {2 * i : i \in (-MaxLevel)..MaxLevel}
Spots == (-(2 * MaxLevel) - 1)..(2 * MaxLevel + 1)

InitPayOff ==
    /\ dd \in {PayOffDoubleDigital_init(l, u) : l \in Levels, u \in Levels}
    /\ dd_spot = <<>>
    /\ dd_ret = 0
    /\ IdleTable
    /\ IdlePricing

Calc ==
    \E spot \in Spots :
        /\ dd_spot' = <<spot>>
        /\ dd_ret' = PayOffDoubleDigital_calc(dd, spot)
        /\ UNCHANGED <<dd, tableVars, pricingVars>>

NextPayOff == Calc

SpecPayOff == InitPayOff /\ [][NextPayOff]_vars

\* C8: calc(spot) is 1 exactly when lower_level < spot < upper_level and 0
\* otherwise; calc(lower) = 0, calc(upper) = 0, and for lower < upper
\* calc((lower + upper) / 2) = 1.
C8_DoubleDigital ==
    dd_spot # <<>> =>
        LET spot == dd_spot[1] IN
        /\ dd_ret = (IF dd.lower_level < spot /\ spot < dd.upper_level THEN 1 ELSE 0)
        /\ spot = dd.lower_level => dd_ret = 0
        /\ spot = dd.upper_level => dd_ret = 0
        /\ (dd.lower_level < dd.upper_level
              /\ 2 * spot = dd.lower_level + dd.upper_level) => dd_ret = 1

C8_Witness ==
    /\ dd.lower_level < dd.upper_level
    /\ dd_spot = <<dd.upper_level>>
    /\ dd_ret = 0

\* ------------------------------------------------------- the pricing calls
\* strike and spot in eighths, vol and r in halves, expiry in whole units
Strikes == {8, 12}
Seeds == {<<>>, <<1>>, <<2>>}
PathCounts == (-1)..MaxSimPaths

InitPricing ==
    /\ rnd \in {[state |-> s, gauss_next |-> <<>>] : s \in 0..3}
    /\ first = NoCall
    /\ last = NoCall
    /\ IdleTable
    /\ IdlePayOff

\* The observer's record of one pricing call.  later: an earlier call was
\* already remembered; pending: the random source held a cached variate when
\* the call began.
CallRecord(fn, strike, number_of_paths, seed, out) ==
    [fn |-> fn, strike |-> strike, expiry |-> 1, spot |-> 16,
     vol |-> 2, r |-> 0, number_of_paths |-> number_of_paths, seed |-> seed,
     later |-> first.fn # "none", pending |-> rnd.gauss_next # <<>>,
     raised |-> out.raised, gatherer |-> out.gatherer]

\* the observer may remember a seeded call as the earlier call, once
MayRemember(seed) == IF first.fn = "none" /\ seed # <<>> THEN BOOLEAN ELSE {FALSE}

Remember(call, remember) == IF remember THEN call ELSE first

CallPriceStats ==
    \E strike \in Strikes, n \in PathCounts, seed \in Seeds :
    \E remember \in MayRemember(seed) :
        LET out == CalcEuropeanOption_call_price_stats(strike, 1, 16, 2, 0, n, seed, rnd)
            call == CallRecord("call_price_stats", strike, n, seed, out)
        IN  /\ rnd' = out.rnd
            /\ last' = call
            /\ first' = Remember(call, remember)
            /\ UNCHANGED <<tableVars, payOffVars>>

PutPriceStats ==
    \E strike \in Strikes, n \in PathCounts, seed \in Seeds :
    \E remember \in MayRemember(seed) :
        LET out == CalcEuropeanOption_put_price_stats(strike, 1, 16, 2, 0, n, seed, rnd)
            call == CallRecord("put_price_stats", strike, n, seed, out)
        IN  /\ rnd' = out.rnd
            /\ last' = call
            /\ first' = Remember(call, remember)
            /\ UNCHANGED <<tableVars, payOffVars>>

NextPricing == CallPriceStats \/ PutPriceStats

SpecPricing == InitPricing /\ [][NextPricing]_vars

SameArguments(a, b) ==
    /\ a.fn = b.fn /\ a.strike = b.strike /\ a.expiry = b.expiry
    /\ a.spot = b.spot /\ a.vol = b.vol /\ a.r = b.r
    /\ a.number_of_paths = b.number_of_paths /\ a.seed = b.seed

\* C6: a pricing call with number_of_paths <= 0 ends in an error instead of
\* returning normally.
C6_NonPositivePathsRejected ==
    (last.fn # "none" /\ last.number_of_paths <= 0) => last.raised # ""

\* C7: two pricing calls with the same arguments and the same seed (not None)
\* give the same convergence table, whatever the random source held before
\* each and whatever calls ran in between.
C7_SeededDeterminism ==
    (first.fn # "none" /\ first.seed # <<>> /\ SameArguments(first, last)) =>
        /\ last.raised = first.raised
        /\ last.gatherer = first.gatherer
        /\ ConvergenceTable_get_results_so_far(last.gatherer).value
               = ConvergenceTable_get_results_so_far(first.gatherer).value

\* the same seeded call again, after the remembered one, begun with a cached
\* variate pending in the random source while the remembered one began with none
C7_Witness ==
    /\ first.fn # "none" /\ first.seed # <<>> /\ SameArguments(first, last)
    /\ first.number_of_paths = MaxSimPaths
    /\ last.later /\ last.pending /\ ~first.pending
    /\ last.gatherer = first.gatherer
    /\ last.gatherer.stats.running_sum > 0

====
